---------------------------- MODULE Spec2Model ----------------------------
(***************************************************************************)
(* A state-machine model of src/code.py, the healthcare analysis script:   *)
(* three tables are loaded, left-joined into df, forward-filled, enriched  *)
(* with derived columns, aggregated, charted, printed and exported.  One    *)
(* action per statement (group) of the script; pc is the next statement.   *)
(*                                                                         *)
(* Representation.  A table is a sequence of rows, a row a function from   *)
(* column names to cells.  A cell is NA (pandas NaN/NaT/None) or <<v>>.    *)
(* Dates are civil dates [y, m, d]; date arithmetic goes through the day   *)
(* number, as datetime64 does.  Effectiveness_Rate is held in hundredths   *)
(* (80 is 0.80); a mean is an exact fraction in lowest terms.              *)
(***************************************************************************)
EXTENDS Integers, Sequences, FiniteSets, TLC

(***************************************************************************)
(* Cells                                                                   *)
(***************************************************************************)
NA == <<>>

Some(v) == <<v>>

Val(c) == c[1]

notna(c) == c # NA

(***************************************************************************)
(* Dates: datetime64 values, compared and subtracted by day number.        *)
(***************************************************************************)
Date(y, m, d) == [y |-> y, m |-> m, d |-> d]

\* Days since 1970-01-01 of a proleptic Gregorian civil date.
DaysFromCivil(dt) ==
    LET yy  == IF dt.m <= 2 THEN dt.y - 1 ELSE dt.y
        era == yy \div 400
        yoe == yy - era * 400
        mp  == (dt.m + 9) % 12
        doy == (153 * mp + 2) \div 5 + dt.d - 1
        doe == yoe * 365 + yoe \div 4 - yoe \div 100 + doy
    IN  era * 146097 + doe - 719468

\* Timedelta.days of (a - b); NaT propagates.
DaysBetween(a, b) ==
    IF a = NA \/ b = NA THEN NA ELSE Some(DaysFromCivil(Val(a)) - DaysFromCivil(Val(b)))

\* line 21
today == Some(Date(2024, 1, 1))

(***************************************************************************)
(* Column sets of the three input files, as the script uses them.          *)
(***************************************************************************)
PatientCols ==
    {"Patient_ID", "DOB", "Admission_Date", "Discharge_Date", "Gender",
     "Condition", "Hospital_ID", "Readmitted", "Outcome"}

HospitalCols == {"Hospital_ID", "Department"}

TreatmentCols == {"Condition", "Treatment_Type", "Effectiveness_Rate"}

MergedCols == PatientCols \cup HospitalCols \cup TreatmentCols

(***************************************************************************)
(* Input rows the tables are drawn from.                                   *)
(***************************************************************************)
PatientRow(id, dob, adm, dis, g, c, h, r, o) ==
    [Patient_ID |-> id, DOB |-> dob, Admission_Date |-> adm,
     Discharge_Date |-> dis, Gender |-> g, Condition |-> c,
     Hospital_ID |-> h, Readmitted |-> r, Outcome |-> o]

\* the end-to-end example patient
PatientP1 ==
    PatientRow(Some("P1"), Some(Date(2000, 1, 1)), Some(Date(2024, 1, 5)),
               Some(Date(2024, 1, 10)), Some("F"), Some("Flu"), Some("H1"),
               Some(1), Some("Improved"))

\* a row with every field but the identifier missing
PatientP2 ==
    PatientRow(Some("P2"), NA, NA, NA, NA, NA, NA, NA, NA)

\* discharged before admitted (across 29 February)
PatientP3 ==
    PatientRow(Some("P3"), Some(Date(1950, 6, 15)), Some(Date(2024, 3, 2)),
               Some(Date(2024, 2, 27)), Some("M"), Some("Asthma"), Some("H1"),
               Some(0), Some("Deteriorated"))

\* age exactly 18 at the reference date, not readmitted, a hospital with no
\* record in the hospital table
PatientP4 ==
    PatientRow(Some("P4"), Some(Date(2005, 12, 31)), Some(Date(2024, 1, 10)),
               Some(Date(2024, 1, 15)), Some("M"), Some("Flu"), Some("H2"),
               Some(0), Some("Unchanged"))

PatientPool == {PatientP1, PatientP2, PatientP3, PatientP4}

HospitalRow(h, d) == [Hospital_ID |-> h, Department |-> d]

HospitalPool ==
    {HospitalRow(Some("H1"), Some("General")),
     HospitalRow(Some("H1"), Some("ICU")),
     HospitalRow(NA, Some("Outpatient"))}

TreatmentRow(c, t, e) == [Condition |-> c, Treatment_Type |-> t, Effectiveness_Rate |-> e]

TreatmentPool ==
    {TreatmentRow(Some("Flu"), Some("Antiviral"), Some(80)),
     TreatmentRow(Some("Flu"), Some("Rest"), Some(50)),
     TreatmentRow(Some("Asthma"), Some("Antiviral"), Some(60))}

AllInputRows == PatientPool \cup HospitalPool \cup TreatmentPool

\* every value an input row can hold in a column
Universe(col) ==
    {Val(r[col]) : r \in {q \in AllInputRows : col \in DOMAIN q /\ notna(q[col])}}

MaxPatients == 2

MaxHospitals == 2

MaxTreatments == 2

SeqsUpTo(S, n) == UNION {[1..k -> S] : k \in 0..n}

\* tables whose rows are pairwise different
DistinctSeqsUpTo(S, n) ==
    {s \in SeqsUpTo(S, n) : \A i, j \in DOMAIN s : i # j => s[i] # s[j]}

(***************************************************************************)
(* Sequence helpers                                                        *)
(***************************************************************************)
RECURSIVE Concat(_)
Concat(ss) == IF ss = <<>> THEN <<>> ELSE Head(ss) \o Concat(Tail(ss))

RECURSIVE SumSeq(_)
SumSeq(s) == IF s = <<>> THEN 0 ELSE Head(s) + SumSeq(Tail(s))

\* the non-missing values of a column, in row order
Values(tbl, col) ==
    LET present == SelectSeq(tbl, LAMBDA r : notna(r[col]))
    IN  [i \in 1..Len(present) |-> Val(present[i][col])]

(***************************************************************************)
(* pandas.DataFrame.merge(right, on=key, how="left")                       *)
(***************************************************************************)
\* pandas matches join keys by equality and, unlike SQL, matches a missing
\* key with a missing key.
KeyMatch(a, b) == a = b

\* variant: a first-match join, one output row per left row
FirstMatchJoinRows(l, right, key, rightCols) ==
    LET matches == SelectSeq(right, LAMBDA r : KeyMatch(r[key], l[key]))
    IN  IF matches = <<>>
        THEN << l @@ [c \in rightCols |-> NA] >>
        ELSE << l @@ matches[1] >>

\* the output rows of one left row: one per matching right row, in the right
\* table's order, or one row with the right columns missing
LeftJoinRows(l, right, key, rightCols) ==
    LET matches == SelectSeq(right, LAMBDA r : KeyMatch(r[key], l[key]))
    IN  IF matches = <<>>
        THEN << l @@ [c \in rightCols |-> NA] >>
        ELSE [i \in 1..Len(matches) |-> l @@ matches[i]]

LeftJoin(left, right, key, rightCols) ==
    Concat([i \in 1..Len(left) |-> LeftJoinRows(left[i], right, key, rightCols)])

\* line 14
Merge(p, h, t) ==
    LeftJoin(LeftJoin(p, h, "Hospital_ID", HospitalCols), t, "Condition", TreatmentCols)

(***************************************************************************)
(* DataFrame.fillna(method="ffill")                                        *)
(***************************************************************************)
\* variant: a fill that looks one row back only (ffill with limit=1)
PrevRowOnlyCell(tbl, col, i) ==
    IF notna(tbl[i][col]) THEN tbl[i][col]
    ELSE IF i = 1 THEN NA
    ELSE tbl[i - 1][col]

RECURSIVE FfillCell(_, _, _)
\* the value the forward pass leaves in row i of column col: the row's own
\* value when present, else what the pass carried out of row i - 1
FfillCell(tbl, col, i) ==
    IF notna(tbl[i][col]) THEN tbl[i][col]
    ELSE IF i = 1 THEN NA
    ELSE FfillCell(tbl, col, i - 1)

\* line 17
Ffill(tbl) ==
    [i \in 1..Len(tbl) |-> [c \in DOMAIN tbl[i] |-> FfillCell(tbl, c, i)]]

(***************************************************************************)
(* Enrichment: the derived columns                                         *)
(***************************************************************************)
\* df[col] = cells, for a new column
WithColumn(tbl, col, cells) ==
    [i \in 1..Len(tbl) |-> tbl[i] @@ (col :> cells[i])]

\* df[col] = cells, for a column df already has
SetColumn(tbl, col, cells) ==
    [i \in 1..Len(tbl) |-> [tbl[i] EXCEPT ![col] = cells[i]]]

\* line 18: pd.to_datetime of a cell that read_csv already parsed as a date
ToDatetime(c) == c

DaysPerYear == 365

\* variant: age in years of 366 days
AgeLeapYears(r) ==
    LET days == DaysBetween(today, r["DOB"])
    IN  IF days = NA THEN NA ELSE Some(Val(days) \div 366)

\* line 22: (today - DOB).dt.days // 365, a floor division
AgeOf(r) ==
    LET days == DaysBetween(today, r["DOB"])
    IN  IF days = NA THEN NA ELSE Some(Val(days) \div DaysPerYear)

\* line 25
bins == <<0, 18, 35, 50, 65, 100>>

\* line 26
labels == <<"Child", "Young Adult", "Adult", "Middle Aged", "Senior">>

\* numpy searchsorted(bins, v, side="left"): how many bin edges are below v
SearchSortedLeft(edges, v) == Cardinality({i \in DOMAIN edges : edges[i] < v})

\* variant: intervals closed on the left, as pd.cut(..., right=False)
CutLeftClosed(x) ==
    IF x = NA THEN NA
    ELSE LET ids == Cardinality({i \in DOMAIN bins : bins[i] <= Val(x)})
         IN  IF ids = 0 \/ ids = Len(bins) THEN NA ELSE Some(labels[ids])

\* line 27: pd.cut(x, bins, labels) with the default right=True: the bin index
\* is searchsorted(bins, x, "left"); index 0 (x <= bins[0]), index len(bins)
\* (x > bins[-1]) and a missing x give a missing category.
Cut(x) ==
    IF x = NA THEN NA
    ELSE LET ids == SearchSortedLeft(bins, Val(x))
         IN  IF ids = 0 \/ ids = Len(bins) THEN NA ELSE Some(labels[ids])

\* lines 32-33: .dt.month
MonthOf(c) == IF c = NA THEN NA ELSE Some(Val(c).m)

\* variant: a stay clamped at zero
ClampedStay(r) ==
    LET d == DaysBetween(r["Discharge_Date"], r["Admission_Date"])
    IN  IF d = NA THEN NA ELSE IF Val(d) < 0 THEN Some(0) ELSE d

\* line 39: (Discharge_Date - Admission_Date).dt.days
StayOf(r) == DaysBetween(r["Discharge_Date"], r["Admission_Date"])

(***************************************************************************)
(* Aggregation: exact fractions, Series.mean, groupby                      *)
(***************************************************************************)
Abs(n) == IF n < 0 THEN -n ELSE n

RECURSIVE GCD(_, _)
GCD(a, b) == IF b = 0 THEN a ELSE GCD(b, a % b)

\* n/d in lowest terms, d > 0
Frac(n, d) ==
    LET g == GCD(Abs(n), d) IN [num |-> n \div g, den |-> d \div g]

\* Series.mean(): missing values are skipped (skipna=True); the mean of no
\* values is NaN, not an error
Mean(tbl, col) ==
    LET vals == Values(tbl, col)
    IN  IF vals = <<>> THEN NA ELSE Some(Frac(SumSeq(vals), Len(vals)))

\* variant: a grouping over a categorical key, which keeps a group for every
\* category whether or not a row has it
GroupKeysAllLevels(tbl, key) ==
    {Val(tbl[i][key]) : i \in {j \in DOMAIN tbl : notna(tbl[j][key])}}
        \cup Universe(key)

\* groupby(key): one group per key value that occurs; rows with a missing
\* key are dropped (dropna=True)
GroupKeys(tbl, key) ==
    {Val(tbl[i][key]) : i \in {j \in DOMAIN tbl : notna(tbl[j][key])}}

Group(tbl, key, k) == SelectSeq(tbl, LAMBDA r : r[key] = Some(k))

\* groupby(key)[col].count(): the non-missing values of col per group
GroupCount(tbl, key, col) ==
    [k \in GroupKeys(tbl, key) |-> Len(Values(Group(tbl, key, k), col))]

\* groupby(key)[col].mean()
GroupMean(tbl, key, col) ==
    [k \in GroupKeys(tbl, key) |-> Mean(Group(tbl, key, k), col)]

(***************************************************************************)
(* interventions (line 99)                                                 *)
(***************************************************************************)
\* df[df["Readmitted"] == 1]
ReadmittedRows(tbl) == SelectSeq(tbl, LAMBDA r : r["Readmitted"] = Some(1))

\* x.value_counts() of one group's Treatment_Type: count per value that occurs
ValueCounts(tbl, col) ==
    LET vals == Values(tbl, col)
    IN  [v \in {vals[i] : i \in DOMAIN vals} |->
            Cardinality({i \in DOMAIN vals : vals[i] = v})]

\* The values value_counts() may list first: those of the highest count.
\* value_counts sorts by count with an unstable sort and documents no order
\* among equal counts, so every value tied for the highest count is a
\* possible index[0].
TopValues(tbl, col) ==
    LET vc == ValueCounts(tbl, col)
    IN  {v \in DOMAIN vc : \A w \in DOMAIN vc : vc[w] <= vc[v]}

\* the groups whose lambda raises IndexError: value_counts() is empty
EmptyGroups(tbl, key, col) ==
    {k \in GroupKeys(tbl, key) : Values(Group(tbl, key, k), col) = <<>>}

(***************************************************************************)
(* Reporting helpers                                                       *)
(***************************************************************************)
\* round-half-even of n/d, d > 0
RoundHalfEven(n, d) ==
    LET q == n \div d
        r == n % d
    IN  IF 2 * r < d THEN q
        ELSE IF 2 * r > d THEN q + 1
        ELSE IF q % 2 = 0 THEN q ELSE q + 1

\* line 90: round(readmission_rate * 100, 2), in hundredths of a percent;
\* NaN stays NaN
RatePercent(rate) ==
    IF rate = NA THEN NA
    ELSE Some(RoundHalfEven(Val(rate).num * 10000, Val(rate).den))

\* a < b on cells holding fractions, NaN below everything (sorted last by
\* sort_values(ascending=False))
FracLess(a, b) ==
    IF b = NA THEN FALSE
    ELSE IF a = NA THEN TRUE
    ELSE Val(a).num * Val(b).den < Val(b).num * Val(a).den

HeadSize == 5

\* line 111: sort_values(ascending=False).head(): the entries with fewer than
\* five larger ones (the printed order is not modelled)
TopByValue(f) ==
    LET keep == {k \in DOMAIN f :
                    Cardinality({j \in DOMAIN f : FracLess(f[k], f[j])}) < HeadSize}
    IN  [k \in keep |-> f[k]]

(***************************************************************************)
(* State                                                                   *)
(***************************************************************************)
VARIABLES
    patients, hospitals, treatments,    \* the loaded tables (lines 9-11)
    df,                                 \* the unified table
    columns,                            \* df's column names
    admission_trend, discharge_trend,
    avg_stay_condition, avg_stay_department,
    readmission_rate, readmission_by_condition,
    outcome_segment, effectiveness_summary,
    high_risk_patients, interventions,
    defined,                            \* the names bound so far
    pc,                                 \* the next statement
    files,                              \* artifacts written, in order
    stdout,                             \* what was printed, in order
    conn,                               \* tables of the in-memory database
    error,                              \* the uncaught exception, or "none"
    cut_x, cut_out                      \* argument and result of a pd.cut call

inputs == <<patients, hospitals, treatments>>

aggregates ==
    <<admission_trend, discharge_trend, avg_stay_condition, avg_stay_department,
      readmission_rate, readmission_by_condition, outcome_segment,
      effectiveness_summary, high_risk_patients, interventions>>

outputs == <<files, stdout, conn>>

cutvars == <<cut_x, cut_out>>

vars == <<inputs, df, columns, aggregates, defined, pc, outputs, error, cutvars>>

Unbound ==
    /\ df = <<>> /\ columns = {}
    /\ admission_trend = <<>> /\ discharge_trend = <<>>
    /\ avg_stay_condition = <<>> /\ avg_stay_department = <<>>
    /\ readmission_rate = NA /\ readmission_by_condition = <<>>
    /\ outcome_segment = <<>> /\ effectiveness_summary = <<>>
    /\ high_risk_patients = <<>> /\ interventions = <<>>
    /\ defined = {"patients", "hospitals", "treatments"}
    /\ files = <<>> /\ stdout = <<>> /\ conn = {} /\ error = "none"

\* The state after lines 9-11: the three files are loaded, nothing else is
\* bound.  A patient may be listed twice; the hospital and treatment tables
\* list no row twice (two rows with one key already give every fan-out a
\* repeated row would).
Init ==
    /\ patients \in SeqsUpTo(PatientPool, MaxPatients)
    /\ hospitals \in DistinctSeqsUpTo(HospitalPool, MaxHospitals)
    /\ treatments \in DistinctSeqsUpTo(TreatmentPool, MaxTreatments)
    /\ Unbound
    /\ pc = "merge"
    /\ cut_x = NA /\ cut_out = NA

Goto(from, to) == pc = from /\ pc' = to

Bind(name) == defined' = defined \cup {name}

Raise(from, exc) ==
    /\ pc = from /\ pc' = "aborted" /\ error' = exc
    /\ UNCHANGED <<inputs, df, columns, aggregates, defined, outputs, cutvars>>

(***************************************************************************)
(* Merger and Cleaner                                                      *)
(***************************************************************************)
\* line 14
MergeStep ==
    /\ Goto("merge", "fillna")
    /\ df' = Merge(patients, hospitals, treatments)
    /\ columns' = MergedCols
    /\ Bind("df")
    /\ UNCHANGED <<inputs, aggregates, outputs, error, cutvars>>

\* line 17
FillnaStep ==
    /\ Goto("fillna", "to_datetime")
    /\ df' = Ffill(df)
    /\ UNCHANGED <<inputs, columns, aggregates, defined, outputs, error, cutvars>>

\* line 18: Discharge_Date already holds dates; the conversion changes no value
ToDatetimeStep ==
    /\ Goto("to_datetime", "Age")
    /\ df' = SetColumn(df, "Discharge_Date",
                      [i \in DOMAIN df |-> ToDatetime(df[i]["Discharge_Date"])])
    /\ UNCHANGED <<inputs, columns, aggregates, defined, outputs, error, cutvars>>

(***************************************************************************)
(* Enricher                                                                *)
(***************************************************************************)
\* lines 21-22
AgeStep ==
    /\ Goto("Age", "Age_Group")
    /\ df' = WithColumn(df, "Age", [i \in DOMAIN df |-> AgeOf(df[i])])
    /\ columns' = columns \cup {"Age"}
    /\ Bind("today")
    /\ UNCHANGED <<inputs, aggregates, outputs, error, cutvars>>

\* line 22 on a patient file with a header and no rows: read_csv parses no
\* dates, the date columns come back with dtype object and .dt raises
\* AttributeError; on a build that types the empty columns as dates the
\* statement succeeds (AgeStep).  Both outcomes are kept.
AgeRaises ==
    /\ patients = <<>>
    /\ Raise("Age", "AttributeError")

\* lines 25-27
AgeGroupStep ==
    /\ Goto("Age_Group", "Admission_Month")
    /\ df' = WithColumn(df, "Age_Group", [i \in DOMAIN df |-> Cut(df[i]["Age"])])
    /\ columns' = columns \cup {"Age_Group"}
    /\ defined' = defined \cup {"bins", "labels"}
    /\ UNCHANGED <<inputs, aggregates, outputs, error, cutvars>>

\* line 32
AdmissionMonthStep ==
    /\ Goto("Admission_Month", "Discharge_Month")
    /\ df' = WithColumn(df, "Admission_Month",
                       [i \in DOMAIN df |-> MonthOf(df[i]["Admission_Date"])])
    /\ columns' = columns \cup {"Admission_Month"}
    /\ UNCHANGED <<inputs, aggregates, defined, outputs, error, cutvars>>

\* line 33
DischargeMonthStep ==
    /\ Goto("Discharge_Month", "admission_trend")
    /\ df' = WithColumn(df, "Discharge_Month",
                       [i \in DOMAIN df |-> MonthOf(df[i]["Discharge_Date"])])
    /\ columns' = columns \cup {"Discharge_Month"}
    /\ UNCHANGED <<inputs, aggregates, defined, outputs, error, cutvars>>

\* line 35
AdmissionTrendStep ==
    /\ Goto("admission_trend", "discharge_trend")
    /\ admission_trend' = GroupCount(df, "Admission_Month", "Patient_ID")
    /\ Bind("admission_trend")
    /\ UNCHANGED <<inputs, df, columns, discharge_trend, avg_stay_condition,
                   avg_stay_department, readmission_rate, readmission_by_condition,
                   outcome_segment, effectiveness_summary, high_risk_patients,
                   interventions, outputs, error, cutvars>>

\* line 36
DischargeTrendStep ==
    /\ Goto("discharge_trend", "Length_of_Stay")
    /\ discharge_trend' = GroupCount(df, "Discharge_Month", "Patient_ID")
    /\ Bind("discharge_trend")
    /\ UNCHANGED <<inputs, df, columns, admission_trend, avg_stay_condition,
                   avg_stay_department, readmission_rate, readmission_by_condition,
                   outcome_segment, effectiveness_summary, high_risk_patients,
                   interventions, outputs, error, cutvars>>

\* line 39
LengthOfStayStep ==
    /\ Goto("Length_of_Stay", "avg_stay_condition")
    /\ df' = WithColumn(df, "Length_of_Stay", [i \in DOMAIN df |-> StayOf(df[i])])
    /\ columns' = columns \cup {"Length_of_Stay"}
    /\ UNCHANGED <<inputs, aggregates, defined, outputs, error, cutvars>>

(***************************************************************************)
(* Aggregator                                                              *)
(***************************************************************************)
\* line 41
AvgStayConditionStep ==
    /\ Goto("avg_stay_condition", "avg_stay_department")
    /\ avg_stay_condition' = GroupMean(df, "Condition", "Length_of_Stay")
    /\ Bind("avg_stay_condition")
    /\ UNCHANGED <<inputs, df, columns, admission_trend, discharge_trend,
                   avg_stay_department, readmission_rate, readmission_by_condition,
                   outcome_segment, effectiveness_summary, high_risk_patients,
                   interventions, outputs, error, cutvars>>

\* line 42
AvgStayDepartmentStep ==
    /\ Goto("avg_stay_department", "readmission_rate")
    /\ avg_stay_department' = GroupMean(df, "Department", "Length_of_Stay")
    /\ Bind("avg_stay_department")
    /\ UNCHANGED <<inputs, df, columns, admission_trend, discharge_trend,
                   avg_stay_condition, readmission_rate, readmission_by_condition,
                   outcome_segment, effectiveness_summary, high_risk_patients,
                   interventions, outputs, error, cutvars>>

\* line 45
ReadmissionRateStep ==
    /\ Goto("readmission_rate", "readmission_by_condition")
    /\ readmission_rate' = Mean(df, "Readmitted")
    /\ Bind("readmission_rate")
    /\ UNCHANGED <<inputs, df, columns, admission_trend, discharge_trend,
                   avg_stay_condition, avg_stay_department, readmission_by_condition,
                   outcome_segment, effectiveness_summary, high_risk_patients,
                   interventions, outputs, error, cutvars>>

\* line 46
ReadmissionByConditionStep ==
    /\ Goto("readmission_by_condition", "outcome_segment")
    /\ readmission_by_condition' = GroupMean(df, "Condition", "Readmitted")
    /\ Bind("readmission_by_condition")
    /\ UNCHANGED <<inputs, df, columns, admission_trend, discharge_trend,
                   avg_stay_condition, avg_stay_department, readmission_rate,
                   outcome_segment, effectiveness_summary, high_risk_patients,
                   interventions, outputs, error, cutvars>>

\* line 49
OutcomeSegmentStep ==
    /\ Goto("outcome_segment", "effectiveness_summary")
    /\ outcome_segment' = GroupCount(df, "Outcome", "Patient_ID")
    /\ Bind("outcome_segment")
    /\ UNCHANGED <<inputs, df, columns, admission_trend, discharge_trend,
                   avg_stay_condition, avg_stay_department, readmission_rate,
                   readmission_by_condition, effectiveness_summary,
                   high_risk_patients, interventions, outputs, error, cutvars>>

\* line 52
EffectivenessSummaryStep ==
    /\ Goto("effectiveness_summary", "gender_pie")
    /\ effectiveness_summary' = GroupMean(df, "Treatment_Type", "Effectiveness_Rate")
    /\ Bind("effectiveness_summary")
    /\ UNCHANGED <<inputs, df, columns, admission_trend, discharge_trend,
                   avg_stay_condition, avg_stay_department, readmission_rate,
                   readmission_by_condition, outcome_segment,
                   high_risk_patients, interventions, outputs, error, cutvars>>

(***************************************************************************)
(* Reporter, and the two views computed between its steps                  *)
(***************************************************************************)
Savefig(name, data) == files' = Append(files, [file |-> name, of |-> data])

\* lines 55-59
GenderPieStep ==
    /\ Goto("gender_pie", "age_group_pie")
    /\ Savefig("patient_gender_pie.png", "Gender")
    /\ UNCHANGED <<inputs, df, columns, aggregates, defined, stdout, conn, error, cutvars>>

\* lines 62-66
AgeGroupPieStep ==
    /\ Goto("age_group_pie", "trend_plot")
    /\ Savefig("age_group_pie.png", "Age_Group")
    /\ UNCHANGED <<inputs, df, columns, aggregates, defined, stdout, conn, error, cutvars>>

\* lines 69-78
TrendPlotStep ==
    /\ Goto("trend_plot", "boxplot")
    /\ Savefig("admission_discharge_trend.png", "admission_trend")
    /\ UNCHANGED <<inputs, df, columns, aggregates, defined, stdout, conn, error, cutvars>>

\* variant: a plotting step that drops the rows it cannot draw from df itself
BoxplotDroppingRows ==
    /\ Goto("boxplot", "print_key_metrics")
    /\ Savefig("length_of_stay_boxplot.png", "Length_of_Stay")
    /\ df' = SelectSeq(df, LAMBDA r : notna(r["Length_of_Stay"]))
    /\ UNCHANGED <<inputs, columns, aggregates, defined, stdout, conn, error, cutvars>>

\* lines 81-86
BoxplotStep ==
    /\ Goto("boxplot", "print_key_metrics")
    /\ Savefig("length_of_stay_boxplot.png", "Length_of_Stay")
    /\ UNCHANGED <<inputs, df, columns, aggregates, defined, stdout, conn, error, cutvars>>

\* lines 89-93
PrintKeyMetricsStep ==
    /\ Goto("print_key_metrics", "high_risk_patients")
    /\ stdout' = stdout \o
         << [label |-> "Readmission Rate:", value |-> RatePercent(readmission_rate)],
            [label |-> "Average Stay by Condition:", value |-> avg_stay_condition],
            [label |-> "Average Stay by Department:", value |-> avg_stay_department],
            [label |-> "Treatment Effectiveness:", value |-> effectiveness_summary] >>
    /\ UNCHANGED <<inputs, df, columns, aggregates, defined, files, conn, error, cutvars>>

\* line 96
HighRiskPatientsStep ==
    /\ Goto("high_risk_patients", "interventions")
    /\ high_risk_patients' = SelectSeq(df, LAMBDA r : r["Outcome"] = Some("Deteriorated"))
    /\ Bind("high_risk_patients")
    /\ UNCHANGED <<inputs, df, columns, admission_trend, discharge_trend,
                   avg_stay_condition, avg_stay_department, readmission_rate,
                   readmission_by_condition, outcome_segment, effectiveness_summary,
                   interventions, outputs, error, cutvars>>

\* line 99, every group has a treatment type: each condition of a readmitted
\* row gets the first entry of its group's value_counts()
InterventionsStep ==
    /\ Goto("interventions", "export")
    /\ EmptyGroups(ReadmittedRows(df), "Condition", "Treatment_Type") = {}
    /\ \E pick \in [GroupKeys(ReadmittedRows(df), "Condition") ->
                        {Val(df[i]["Treatment_Type"]) :
                            i \in {j \in DOMAIN df : notna(df[j]["Treatment_Type"])}}] :
          /\ \A k \in DOMAIN pick :
                pick[k] \in TopValues(Group(ReadmittedRows(df), "Condition", k),
                                      "Treatment_Type")
          /\ interventions' = pick
    /\ Bind("interventions")
    /\ UNCHANGED <<inputs, df, columns, admission_trend, discharge_trend,
                   avg_stay_condition, avg_stay_department, readmission_rate,
                   readmission_by_condition, outcome_segment, effectiveness_summary,
                   high_risk_patients, outputs, error, cutvars>>

\* line 99, some group has readmitted rows and no treatment type at all:
\* value_counts() is empty and index[0] raises IndexError
InterventionsRaises ==
    /\ EmptyGroups(ReadmittedRows(df), "Condition", "Treatment_Type") # {}
    /\ Raise("interventions", "IndexError")

\* lines 102-104
ExportStep ==
    /\ Goto("export", "to_sql")
    /\ files' = files \o
         << [file |-> "full_patient_analysis.csv", of |-> "df"],
            [file |-> "avg_stay_by_condition.csv", of |-> "avg_stay_condition"],
            [file |-> "readmission_by_condition.csv", of |-> "readmission_by_condition"] >>
    /\ UNCHANGED <<inputs, df, columns, aggregates, defined, stdout, conn, error, cutvars>>

\* lines 107-108
ToSqlStep ==
    /\ Goto("to_sql", "print_documentation")
    /\ conn' = {"patients"}
    /\ Bind("conn")
    /\ UNCHANGED <<inputs, df, columns, aggregates, files, stdout, error, cutvars>>

\* lines 111-112
PrintDocumentationStep ==
    /\ Goto("print_documentation", "done")
    /\ stdout' = stdout \o
         << [label |-> "Top Conditions with Readmissions:",
             value |-> TopByValue(readmission_by_condition)],
            [label |-> "Suggested Interventions:", value |-> interventions] >>
    /\ UNCHANGED <<inputs, df, columns, aggregates, defined, files, conn, error, cutvars>>

Next ==
    \/ MergeStep
    \/ FillnaStep
    \/ ToDatetimeStep
    \/ AgeStep
    \/ AgeRaises
    \/ AgeGroupStep
    \/ AdmissionMonthStep
    \/ DischargeMonthStep
    \/ AdmissionTrendStep
    \/ DischargeTrendStep
    \/ LengthOfStayStep
    \/ AvgStayConditionStep
    \/ AvgStayDepartmentStep
    \/ ReadmissionRateStep
    \/ ReadmissionByConditionStep
    \/ OutcomeSegmentStep
    \/ EffectivenessSummaryStep
    \/ GenderPieStep
    \/ AgeGroupPieStep
    \/ TrendPlotStep
    \/ BoxplotStep
    \/ PrintKeyMetricsStep
    \/ HighRiskPatientsStep
    \/ InterventionsStep
    \/ InterventionsRaises
    \/ ExportStep
    \/ ToSqlStep
    \/ PrintDocumentationStep

Spec == Init /\ [][Next]_vars

(***************************************************************************)
(* pd.cut on its own: one call per age of a range around the bins          *)
(***************************************************************************)
AgeBelow == 10

AgeAbove == 110

InitCut ==
    /\ patients = <<>> /\ hospitals = <<>> /\ treatments = <<>>
    /\ Unbound
    /\ pc = "cut"
    /\ cut_x \in {Some(a) : a \in (0 - AgeBelow)..AgeAbove} \cup {NA}
    /\ cut_out = NA

CutStep ==
    /\ Goto("cut", "cut_done")
    /\ cut_out' = Cut(cut_x)
    /\ UNCHANGED <<inputs, df, columns, aggregates, defined, outputs, error, cut_x>>

NextCut == CutStep

SpecCut == InitCut /\ [][NextCut]_vars

(***************************************************************************)
(* Properties                                                              *)
(***************************************************************************)
Max(a, b) == IF a >= b THEN a ELSE b

MaxOf(S) == CHOOSE m \in S : \A n \in S : n <= m

\* the end-to-end example of the specification
ExampleInput ==
    /\ patients = << PatientP1 >>
    /\ hospitals = << HospitalRow(Some("H1"), Some("General")) >>
    /\ treatments = << TreatmentRow(Some("Flu"), Some("Antiviral"), Some(80)) >>

ExampleCommon ==
    /\ Len(df) = 1
    /\ df[1]["Age"] = Some(24)
    /\ df[1]["Length_of_Stay"] = Some(5)
    /\ readmission_rate = Some(Frac(1, 1))
    /\ DOMAIN avg_stay_condition = {"Flu"}
    /\ avg_stay_condition["Flu"] = Some(Frac(5, 1))
    /\ DOMAIN effectiveness_summary = {"Antiviral"}
    /\ effectiveness_summary["Antiviral"] = Some(Frac(80, 1))

\* C1 as stated: on the end-to-end example the pipeline yields age 24, age
\* group "Adult", length of stay 5, readmission_rate 1.0,
\* avg_stay_by_condition["Flu"] = 5.0 and effectiveness_summary["Antiviral"]
\* = 0.8.
C1_ExampleAsStated ==
    (ExampleInput /\ "effectiveness_summary" \in defined) =>
        (ExampleCommon /\ df[1]["Age_Group"] = Some("Adult"))

\* C1 amended: on the end-to-end example the pipeline yields age 24, age
\* group "Young Adult" (24 lies in (18,35]), length of stay 5,
\* readmission_rate 1.0, avg_stay_by_condition["Flu"] = 5.0 and
\* effectiveness_summary["Antiviral"] = 0.8 (80 hundredths).
C1_Example ==
    (ExampleInput /\ "effectiveness_summary" \in defined) =>
        (ExampleCommon /\ df[1]["Age_Group"] = Some("Young Adult"))

C1_Witness == ExampleInput /\ pc = "done" /\ error = "none"

\* the bucket of an age by the documented intervals, lower bound exclusive and
\* upper bound inclusive
BucketOf(a) ==
    IF 0 < a /\ a <= 18 THEN Some("Child")
    ELSE IF 18 < a /\ a <= 35 THEN Some("Young Adult")
    ELSE IF 35 < a /\ a <= 50 THEN Some("Adult")
    ELSE IF 50 < a /\ a <= 65 THEN Some("Middle Aged")
    ELSE IF 65 < a /\ a <= 100 THEN Some("Senior")
    ELSE NA

Rank(g) == IF g = NA THEN 0 ELSE CHOOSE i \in DOMAIN labels : labels[i] = Val(g)

\* C2: for every integer age the age group is the documented bucket,
\* (0,18] Child, (18,35] Young Adult, (35,50] Adult, (50,65] Middle Aged,
\* (65,100] Senior; every age in 1..100 gets exactly one bucket; the bucket
\* never goes down as the age goes up within 1..100; every age outside
\* (0,100], 0 and the negative ages included, is unclassified and no error
\* is raised.
C2_AgeGroupBuckets ==
    (pc = "cut_done" /\ cut_x # NA) =>
        LET a == Val(cut_x) IN
        /\ cut_out = BucketOf(a)
        /\ (a \in 1..100) => Cardinality({i \in DOMAIN labels : cut_out = Some(labels[i])}) = 1
        /\ (a \in 2..100) => Rank(Cut(Some(a - 1))) <= Rank(cut_out)
        /\ (a \notin 1..100) => cut_out = NA
        /\ error = "none"

C2_Witness == pc = "cut_done" /\ cut_x = Some(18) /\ cut_out = Some("Child")

C2_WitnessUnclassified == pc = "cut_done" /\ cut_x = Some(0) /\ cut_out = NA

CountReadmitted(tbl) == Cardinality({i \in DOMAIN tbl : tbl[i]["Readmitted"] = Some(1)})

\* C3: for every non-empty unified table readmission_rate is the number of
\* rows with readmitted = 1 divided by the total number of rows, a row whose
\* readmitted value is still missing after the forward fill included in the
\* denominator.
C3_RateOverAllRows ==
    ("readmission_rate" \in defined /\ df # <<>>) =>
        readmission_rate = Some(Frac(CountReadmitted(df), Len(df)))

PrintedRate == {i \in DOMAIN stdout : stdout[i].label = "Readmission Rate:"}

Exported == \E i \in DOMAIN files : files[i].file = "full_patient_analysis.csv"

Matching(tbl, key, l) == SelectSeq(tbl, LAMBDA r : r[key] = l[key])

FanOut(l) ==
    Max(1, Len(Matching(hospitals, "Hospital_ID", l)))
        * Max(1, Len(Matching(treatments, "Condition", l)))

\* the number of unified rows that come before patient i's rows
Offset(i) == SumSeq([j \in 1..(i - 1) |-> FanOut(patients[j])])

Restrict(r, cols) == [c \in cols |-> r[c]]

\* C5: immediately after the merge the unified table is the patients in
\* file order, each patient repeated max(1,h) * max(1,t) times (h, t: the
\* hospital and treatment rows whose key equals the patient's), so at least
\* once; the copies pair every matching hospital row with every matching
\* treatment row; the hospital fields of a patient without a hospital match
\* and the treatment fields of a patient without a treatment match are null.
C5_LeftJoinFanOut ==
    (pc = "fillna") =>
        /\ Len(df) = Offset(Len(patients) + 1)
        /\ \A i \in DOMAIN patients :
              LET hs == Matching(hospitals, "Hospital_ID", patients[i])
                  ts == Matching(treatments, "Condition", patients[i])
                  nt == Max(1, Len(ts))
              IN  /\ FanOut(patients[i]) >= 1
                  /\ \A a \in 1..Max(1, Len(hs)) : \A b \in 1..nt :
                        LET row == df[Offset(i) + (a - 1) * nt + b] IN
                        /\ Restrict(row, PatientCols) = patients[i]
                        /\ IF hs = <<>>
                           THEN row["Department"] = NA
                           ELSE row["Department"] = hs[a]["Department"]
                        /\ IF ts = <<>>
                           THEN row["Treatment_Type"] = NA /\ row["Effectiveness_Rate"] = NA
                           ELSE /\ row["Treatment_Type"] = ts[b]["Treatment_Type"]
                                /\ row["Effectiveness_Rate"] = ts[b]["Effectiveness_Rate"]

C5_Witness ==
    /\ pc = "fillna"
    /\ \E i \in DOMAIN patients :
          /\ Len(Matching(hospitals, "Hospital_ID", patients[i])) = 2
          /\ Len(Matching(treatments, "Condition", patients[i])) = 2
    /\ \E i \in DOMAIN patients :
          /\ Len(Matching(hospitals, "Hospital_ID", patients[i])) = 0
          /\ Len(Matching(treatments, "Condition", patients[i])) = 0
    /\ Len(df) = 5

\* the unified table as the merge left it
Merged == Merge(patients, hospitals, treatments)

\* C6: after the Cleaner step the table has the rows of the merged table in
\* the same order, and in every column and row i a value that was present is
\* unchanged, a value that was missing is the value of the nearest preceding
\* row that had one, and stays missing when no preceding row had one (row 1
\* in particular).
C6_ForwardFill ==
    (pc \in {"to_datetime", "Age"}) =>
        LET m == Merged IN
        /\ Len(df) = Len(m)
        /\ \A i \in DOMAIN df : \A c \in MergedCols :
              LET before == {j \in 1..(i - 1) : notna(m[j][c])}
              IN  IF notna(m[i][c]) THEN df[i][c] = m[i][c]
                  ELSE IF before = {} THEN df[i][c] = NA
                  ELSE df[i][c] = m[MaxOf(before)][c]

\* a value carried over two rows, and a missing value of row 1 left missing
C6_Witness ==
    /\ pc = "Age"
    /\ LET m == Merged IN
       /\ \E i \in DOMAIN df : \E c \in MergedCols :
             /\ i >= 3 /\ m[i][c] = NA /\ m[i - 1][c] = NA
             /\ notna(df[i][c])
       /\ \E c \in MergedCols : m[1][c] = NA /\ df[1][c] = NA /\ Len(df) >= 2

FirstIndex(tbl, col, v) ==
    CHOOSE i \in DOMAIN tbl :
        /\ tbl[i][col] = Some(v)
        /\ \A j \in 1..(i - 1) : tbl[j][col] # Some(v)

\* among the values of the highest count, the one met first in table order
FirstTop(tbl, col) ==
    CHOOSE v \in TopValues(tbl, col) :
        \A w \in TopValues(tbl, col) : FirstIndex(tbl, col, v) <= FirstIndex(tbl, col, w)

\* C7: interventions maps each condition with at least one readmitted row to
\* the treatment type of the highest row count among that condition's
\* readmitted rows, and among treatment types tied for the highest count to
\* the one first encountered in table order, whatever the run.
C7_InterventionsTieBreak ==
    ("interventions" \in defined) =>
        LET rd == ReadmittedRows(df) IN
        /\ DOMAIN interventions =
              {Val(rd[i]["Condition"]) : i \in {j \in DOMAIN rd : notna(rd[j]["Condition"])}}
        /\ \A c \in DOMAIN interventions :
              interventions[c] = FirstTop(Group(rd, "Condition", c), "Treatment_Type")

\* whether some row of the enriched table has value v in column key
Occurs(key, v) == \E i \in DOMAIN df : df[i][key] = Some(v)

KeysAreThoseOccurring(agg, key, universe) ==
    /\ DOMAIN agg \subseteq universe
    /\ \A v \in universe : (v \in DOMAIN agg) <=> Occurs(key, v)

MeansAreDefinedOrNaN(agg) ==
    \A k \in DOMAIN agg : agg[k] = NA \/ Val(agg[k]).den >= 1

Months == 1..12

\* C8: in every grouped aggregate (admission_trend, discharge_trend,
\* avg_stay_by_condition, avg_stay_by_department, readmission_by_condition,
\* outcome_segment, effectiveness_summary) a key is present if and only if at
\* least one row of the enriched table has that key value, so no group is
\* empty and no mean divides by zero.
C8_KeysPresentIffRows ==
    /\ ("admission_trend" \in defined) =>
          KeysAreThoseOccurring(admission_trend, "Admission_Month", Months)
    /\ ("discharge_trend" \in defined) =>
          KeysAreThoseOccurring(discharge_trend, "Discharge_Month", Months)
    /\ ("avg_stay_condition" \in defined) =>
          /\ KeysAreThoseOccurring(avg_stay_condition, "Condition", Universe("Condition"))
          /\ MeansAreDefinedOrNaN(avg_stay_condition)
    /\ ("avg_stay_department" \in defined) =>
          /\ KeysAreThoseOccurring(avg_stay_department, "Department", Universe("Department"))
          /\ MeansAreDefinedOrNaN(avg_stay_department)
    /\ ("readmission_by_condition" \in defined) =>
          /\ KeysAreThoseOccurring(readmission_by_condition, "Condition", Universe("Condition"))
          /\ MeansAreDefinedOrNaN(readmission_by_condition)
    /\ ("outcome_segment" \in defined) =>
          KeysAreThoseOccurring(outcome_segment, "Outcome", Universe("Outcome"))
    /\ ("effectiveness_summary" \in defined) =>
          /\ KeysAreThoseOccurring(effectiveness_summary, "Treatment_Type",
                                   Universe("Treatment_Type"))
          /\ MeansAreDefinedOrNaN(effectiveness_summary)
    /\ error # "ZeroDivisionError"

\* a condition and a department of the inputs without a row are absent, while
\* others are present
C8_Witness ==
    /\ pc = "done"
    /\ "Flu" \in DOMAIN avg_stay_condition /\ "Asthma" \notin DOMAIN avg_stay_condition
    /\ "General" \in DOMAIN avg_stay_department /\ "ICU" \notin DOMAIN avg_stay_department
    /\ "Rest" \in DOMAIN effectiveness_summary
    /\ "Antiviral" \notin DOMAIN effectiveness_summary

(***************************************************************************)
(* Calendar arithmetic by day of year, to state day differences            *)
(***************************************************************************)
IsLeap(y) == (y % 4 = 0 /\ y % 100 # 0) \/ y % 400 = 0

DaysInMonth(y, m) ==
    IF m \in {4, 6, 9, 11} THEN 30
    ELSE IF m = 2 THEN (IF IsLeap(y) THEN 29 ELSE 28)
    ELSE 31

Ordinal(dt) ==
    LET p == dt.y - 1
    IN  365 * p + p \div 4 - p \div 100 + p \div 400
          + SumSeq([k \in 1..(dt.m - 1) |-> DaysInMonth(dt.y, k)]) + dt.d

\* discharge minus admission in whole days; missing when a date is missing
WholeDays(r) ==
    IF r["Discharge_Date"] = NA \/ r["Admission_Date"] = NA THEN NA
    ELSE Some(Ordinal(Val(r["Discharge_Date"])) - Ordinal(Val(r["Admission_Date"])))

\* the exact mean of the whole-day stays of the rows with key value k
MeanWholeDays(key, k) ==
    LET rows == SelectSeq(df, LAMBDA r : r[key] = Some(k) /\ WholeDays(r) # NA)
    IN  IF rows = <<>> THEN NA
        ELSE Some(Frac(SumSeq([i \in DOMAIN rows |-> Val(WholeDays(rows[i]))]), Len(rows)))

\* C9: for every row length of stay is discharge date minus admission date
\* in whole days, negative when the discharge precedes the admission, and
\* that value enters avg_stay_by_condition and avg_stay_by_department
\* unchanged; admission 2024-01-10 with discharge 2024-01-15 gives 5.
C9_LengthOfStay ==
    /\ ("Length_of_Stay" \in columns) =>
          \A i \in DOMAIN df :
              /\ df[i]["Length_of_Stay"] = WholeDays(df[i])
              /\ (/\ df[i]["Admission_Date"] = Some(Date(2024, 1, 10))
                  /\ df[i]["Discharge_Date"] = Some(Date(2024, 1, 15)))
                    => df[i]["Length_of_Stay"] = Some(5)
    /\ ("avg_stay_condition" \in defined) =>
          \A c \in DOMAIN avg_stay_condition :
              avg_stay_condition[c] = MeanWholeDays("Condition", c)
    /\ ("avg_stay_department" \in defined) =>
          \A d \in DOMAIN avg_stay_department :
              avg_stay_department[d] = MeanWholeDays("Department", d)

\* a negative stay, alone in its condition and averaged with a positive stay
\* in its department
C9_Witness ==
    /\ pc = "done"
    /\ \E i \in DOMAIN df : df[i]["Length_of_Stay"] = Some(0 - 4)
    /\ \E i \in DOMAIN df :
          /\ df[i]["Admission_Date"] = Some(Date(2024, 1, 10))
          /\ df[i]["Length_of_Stay"] = Some(5)
    /\ "Asthma" \in DOMAIN avg_stay_condition
    /\ avg_stay_condition["Asthma"] = Some(Frac(0 - 4, 1))
    /\ \E d \in DOMAIN avg_stay_department : avg_stay_department[d] = Some(Frac(1, 2))

(***************************************************************************)
(* Order of the stages                                                     *)
(***************************************************************************)
DerivedCols ==
    {"Age", "Age_Group", "Admission_Month", "Discharge_Month", "Length_of_Stay"}

\* what the Aggregator produces
AggregateNames ==
    {"admission_trend", "discharge_trend", "avg_stay_condition",
     "avg_stay_department", "readmission_rate", "readmission_by_condition",
     "outcome_segment", "effectiveness_summary", "high_risk_patients",
     "interventions"}

TrendNames == {"admission_trend", "discharge_trend"}

LateNames == {"high_risk_patients", "interventions"}

CleanerDone == pc \notin {"merge", "fillna", "to_datetime"}

ReporterStarted == files # <<>> \/ stdout # <<>> \/ conn # {}

\* the Reporter steps that follow the key metrics: the exports, the database
\* and the closing print
LateReporterStarted ==
    \/ \E i \in DOMAIN files : files[i].file = "full_patient_analysis.csv"
    \/ \E i \in DOMAIN stdout : stdout[i].label = "Suggested Interventions:"
    \/ conn # {}

\* once enrichment is complete no step changes the unified table
TableFrozen == ("Length_of_Stay" \in columns) => (df' = df /\ columns' = columns)

StrictOrderState ==
    /\ (columns \cap DerivedCols # {}) => CleanerDone
    /\ (defined \cap AggregateNames # {}) => DerivedCols \subseteq columns
    /\ ReporterStarted => AggregateNames \subseteq defined

\* C10 as stated: forward-fill precedes every derived column, every derived
\* column precedes every aggregate, every aggregate precedes every Reporter
\* step, and the unified table is not modified after enrichment.
C10_StrictStageOrder == []StrictOrderState /\ [][TableFrozen]_vars

AmendedOrderState ==
    /\ (columns \cap DerivedCols # {}) => CleanerDone
    /\ (defined \cap AggregateNames # {}) =>
          (DerivedCols \ {"Length_of_Stay"}) \subseteq columns
    /\ (defined \cap (AggregateNames \ TrendNames) # {}) => DerivedCols \subseteq columns
    /\ ReporterStarted => (AggregateNames \ LateNames) \subseteq defined
    /\ LateReporterStarted => AggregateNames \subseteq defined

\* C10 amended: forward-fill precedes every derived column; age, age group,
\* admission month and discharge month precede every aggregate, and length
\* of stay precedes every aggregate but admission_trend and discharge_trend,
\* which are computed before it; every aggregate but high_risk_patients and
\* interventions precedes every Reporter step, and those two are computed
\* after the charts and the key-metrics print, before the exports and before
\* interventions is printed; the unified table is not modified after
\* enrichment.
C10_StageOrder == []AmendedOrderState /\ [][TableFrozen]_vars

\* a complete run: the trends existed before length of stay, interventions
\* came after the first Reporter steps
C10_Witness ==
    /\ pc = "done" /\ error = "none" /\ df # <<>>
    /\ AggregateNames \subseteq defined
    /\ DerivedCols \subseteq columns
    /\ Len(files) = 7 /\ Len(stdout) = 6

C10_WitnessTrendBeforeStay ==
    /\ pc = "Length_of_Stay" /\ TrendNames \subseteq defined
    /\ "Length_of_Stay" \notin columns /\ df # <<>>

=============================================================================
